---- MODULE Spec2Model ----
(***************************************************************************)
(* Model of code/data_utils.py: the bucketizer split_to_buckets (with its  *)
(* helper get_bucket_ix) and the embedding loader load_embedding_weights.  *)
(*                                                                         *)
(* A token sequence is a tuple of tokens; the bucketizer only ever takes   *)
(* its len().  The lists a bucket holds are lists of references to the     *)
(* input sequences: X_word_seq holds indices into X_sequences, y_word_seq  *)
(* indices into y_sequences (index 1 is Python's index 0).                 *)
(* A Python dict is a function plus the sequence of its keys in insertion  *)
(* order, which is the order .keys() and .items() iterate in.              *)
(***************************************************************************)
EXTENDS Integers, Sequences, FiniteSets, TLC

VARIABLES
    pc,               \* position in the running call, or the exception raised
    X_sequences,      \* argument X_sequences
    y_sequences,      \* argument y_sequences
    bucket_range,     \* argument bucket_range
    bucket_min_size,  \* argument bucket_min_size
    i,                \* number of pairs the loop of line 119 has processed
    buckets,          \* dict buckets: bucket index -> bucket
    bucket_keys,      \* insertion order of the keys of buckets
    k,                \* number of keys the loop of line 140 has visited
    merge_ix,         \* local merge_ix (0 before its first assignment)
    delete_ixs,       \* list delete_ixs
    visited,          \* history: the keys the loop of line 140 has visited, each
                      \* with the pair count it had when visited
    words,            \* argument words, as its (index, word) items in order
    model,            \* the loaded KeyedVectors: word -> vector
    dim,              \* model.vector_size
    weights,          \* list weights
    row_index,        \* history: the vocabulary index each row was made for
    seq_length,       \* argument seq_length of a direct call of get_bucket_ix
    ix_result         \* what that call returned (-1 before it returns)

bvars == <<X_sequences, y_sequences, bucket_range, bucket_min_size, i,
           buckets, bucket_keys, k, merge_ix, delete_ixs, visited>>
evars == <<words, model, dim, weights, row_index>>
ivars == <<seq_length, ix_result>>
vars == <<pc, bvars, evars, ivars>>

----
\* Bounds of the model.
MaxPairs == 3
MaxSeqLen == 2
MaxRange == 2
MaxMinSize == 2
MaxVocab == 3
MaxDim == 2
MaxIxLen == 9
MaxIxRange == 6

Max(a, b) == IF a >= b THEN a ELSE b

Range(s) == {s[j] : j \in 1..Len(s)}

\* The token sequence ["1", "2", ..., "L"], as the demo writes them.
Tokens(L) == [t \in 1..L |-> t]

RECURSIVE SeqsUpTo(_, _)
SeqsUpTo(S, n) ==
    IF n = 0 THEN {<<>>}
    ELSE LET shorter == SeqsUpTo(S, n - 1)
         IN  shorter \cup {Append(s, e) : s \in {t \in shorter : Len(t) = n - 1}, e \in S}

----
\* get_bucket_ix, without the rounding up of a partial bucket
get_bucket_ix_floor(seq_len, range) == seq_len \div range

\* line 82
get_bucket_ix(seq_len, range) ==
    (seq_len \div range) + (IF seq_len % range # 0 THEN 1 ELSE 0)

\* the assertion, dropped
AssertAlways(X, y) == TRUE

\* assert len(X_sequences) == len(y_sequences)
AssertOk(X, y) == Len(X) = Len(y)

EmptyBucket ==
    [X_word_seq |-> <<>>, y_word_seq |-> <<>>, X_max_seq_len |-> 0, y_max_seq_len |-> 0]

\* lines 131-134: append the pair to the bucket and track the maxima
AddPair(b, ix, iy, X_len, y_len) ==
    [X_word_seq |-> Append(b.X_word_seq, ix),
     y_word_seq |-> Append(b.y_word_seq, iy),
     X_max_seq_len |-> Max(b.X_max_seq_len, X_len),
     y_max_seq_len |-> Max(b.y_max_seq_len, y_len)]

\* the size test, off by one
IsUndersizedLax(b, min_size) == Len(b.X_word_seq) < min_size - 1

\* line 142
IsUndersized(b, min_size) == Len(b.X_word_seq) < min_size

\* the direction test, with <= for <
MergeIxLe(ix, nkeys) == IF ix <= nkeys THEN ix + 1 ELSE ix - 1

\* lines 143-146
MergeIx(ix, nkeys) == IF ix < nkeys THEN ix + 1 ELSE ix - 1

\* the merge, with the y list prepended instead of appended
MergeIntoPrepend(target, bucket, down) ==
    [X_word_seq |-> target.X_word_seq \o bucket.X_word_seq,
     y_word_seq |-> bucket.y_word_seq \o target.y_word_seq,
     X_max_seq_len |-> IF down THEN bucket.X_max_seq_len ELSE target.X_max_seq_len,
     y_max_seq_len |-> IF down THEN bucket.y_max_seq_len ELSE target.y_max_seq_len]

\* lines 147-148 (only when merging downward) and 153-154
MergeInto(target, bucket, down) ==
    [X_word_seq |-> target.X_word_seq \o bucket.X_word_seq,
     y_word_seq |-> target.y_word_seq \o bucket.y_word_seq,
     X_max_seq_len |-> IF down THEN bucket.X_max_seq_len ELSE target.X_max_seq_len,
     y_max_seq_len |-> IF down THEN bucket.y_max_seq_len ELSE target.y_max_seq_len]

\* the deletion loop, never run
DeleteNone(bs, ixs) == bs

\* lines 156-157: for ix in delete_ixs: del buckets[ix]
DeleteAll(bs, ixs) == [ix \in DOMAIN bs \ Range(ixs) |-> bs[ix]]

----
\* The bucketizer's part of the state before a call of load_embedding_weights,
\* and the loader's part before a call of split_to_buckets.
NoBucketizer ==
    /\ X_sequences = <<>> /\ y_sequences = <<>>
    /\ bucket_range = 1 /\ bucket_min_size = 1
    /\ i = 0 /\ buckets = <<>> /\ bucket_keys = <<>> /\ k = 0
    /\ merge_ix = 0 /\ delete_ixs = <<>> /\ visited = <<>>

NoLoader ==
    /\ words = <<>> /\ model = <<>> /\ dim = 0 /\ weights = <<>> /\ row_index = <<>>

NoIxCall == seq_length = 0 /\ ix_result = -1

\* The sequence lists of the demo (lines 171-189).
DemoX == <<Tokens(1), Tokens(2), Tokens(3), Tokens(4), Tokens(5), Tokens(5), Tokens(9)>>
DemoY == <<Tokens(1), Tokens(2), Tokens(2), Tokens(4), Tokens(5), Tokens(7), Tokens(9)>>

SeqLists == SeqsUpTo({Tokens(L) : L \in 0..MaxSeqLen}, MaxPairs)

\* A call of split_to_buckets: the demo's (line 190), or one with arguments
\* from the bounded sets.
Init ==
    /\ pc = "start"
    /\ \/ /\ X_sequences = DemoX
          /\ y_sequences = DemoY
          /\ bucket_range = 2
          /\ bucket_min_size = 2
       \/ /\ X_sequences \in SeqLists
          /\ y_sequences \in SeqLists
          /\ bucket_range \in 1..MaxRange
          /\ bucket_min_size \in 1..MaxMinSize
    /\ i = 0 /\ buckets = <<>> /\ bucket_keys = <<>> /\ k = 0
    /\ merge_ix = 0 /\ delete_ixs = <<>> /\ visited = <<>>
    /\ NoLoader
    /\ NoIxCall

\* Lines 102-117.  X_max_len and y_max_len are the optional arguments (0 is
\* None: "not X_max_len" takes both for missing); max() of an empty list raises
\* ValueError.  The lengths and num_buckets are only logged afterwards.
Start ==
    /\ pc = "start"
    /\ \E X_max_len \in {0, MaxSeqLen}, y_max_len \in {0, MaxSeqLen} :
          pc' = IF ~AssertOk(X_sequences, y_sequences) THEN "AssertionError"
                ELSE IF (X_max_len = 0 /\ X_sequences = <<>>)
                        \/ (y_max_len = 0 /\ y_sequences = <<>>) THEN "ValueError"
                ELSE IF Len(X_sequences) = 0 THEN "delete"
                ELSE "assign"
    /\ UNCHANGED <<bvars, evars, ivars>>

\* One iteration of the loop of lines 119-134.
AssignPair ==
    /\ pc = "assign"
    /\ i < Len(X_sequences)
    /\ IF i + 1 > Len(y_sequences)
       THEN \* y_sequences[i] raises IndexError
            /\ pc' = "IndexError"
            /\ UNCHANGED bvars
       ELSE LET X_len == Len(X_sequences[i + 1])
                y_len == Len(y_sequences[i + 1])
                max_len == Max(X_len, y_len)
                bucket == get_bucket_ix(max_len, bucket_range)
                old == IF bucket \in DOMAIN buckets THEN buckets[bucket] ELSE EmptyBucket
                new == AddPair(old, i + 1, i + 1, X_len, y_len)
            IN  /\ buckets' = [b \in DOMAIN buckets \cup {bucket} |->
                                  IF b = bucket THEN new ELSE buckets[b]]
                /\ bucket_keys' = IF bucket \in DOMAIN buckets THEN bucket_keys
                                  ELSE Append(bucket_keys, bucket)
                /\ i' = i + 1
                /\ pc' = IF i + 1 < Len(X_sequences) THEN "assign" ELSE "merge"
                /\ UNCHANGED <<X_sequences, y_sequences, bucket_range, bucket_min_size,
                               k, merge_ix, delete_ixs, visited>>
    /\ UNCHANGED <<evars, ivars>>

\* One iteration of the loop of lines 140-154.
MergeVisit ==
    /\ pc = "merge"
    /\ k < Len(bucket_keys)
    /\ LET ix == bucket_keys[k + 1]
           bucket == buckets[ix]
           nkeys == Len(bucket_keys)
           target == MergeIx(ix, nkeys)
           down == target < ix
           after == IF k + 1 < Len(bucket_keys) THEN "merge" ELSE "delete"
       IN  /\ k' = k + 1
           /\ visited' = Append(visited, [ix |-> ix, size |-> Len(bucket.X_word_seq)])
           /\ IF ~IsUndersized(bucket, bucket_min_size)
              THEN /\ pc' = after
                   /\ UNCHANGED <<buckets, merge_ix, delete_ixs>>
              ELSE /\ merge_ix' = target
                   /\ IF target \in DOMAIN buckets
                      THEN /\ buckets' = [buckets EXCEPT
                                             ![target] = MergeInto(buckets[target], bucket, down)]
                           /\ delete_ixs' = Append(delete_ixs, ix)
                           /\ pc' = after
                      ELSE \* buckets[merge_ix] raises KeyError: at line 147 when
                           \* merging downward, at line 153 (after line 151) otherwise
                           /\ pc' = "KeyError"
                           /\ delete_ixs' = IF down THEN delete_ixs ELSE Append(delete_ixs, ix)
                           /\ UNCHANGED buckets
    /\ UNCHANGED <<X_sequences, y_sequences, bucket_range, bucket_min_size, i, bucket_keys>>
    /\ UNCHANGED <<evars, ivars>>

\* Lines 156-159: delete the merged buckets and return the mapping.
Return ==
    /\ pc = "delete"
    /\ buckets' = DeleteAll(buckets, delete_ixs)
    /\ pc' = "done"
    /\ UNCHANGED <<X_sequences, y_sequences, bucket_range, bucket_min_size, i,
                   bucket_keys, k, merge_ix, delete_ixs, visited>>
    /\ UNCHANGED <<evars, ivars>>

Next == Start \/ AssignPair \/ MergeVisit \/ Return

Spec == Init /\ [][Next]_vars

----
(***************************************************************************)
(* get_bucket_ix called on its own.                                        *)
(***************************************************************************)
InitIx ==
    /\ pc = "ix_call"
    /\ seq_length \in 0..MaxIxLen
    /\ bucket_range \in 1..MaxIxRange
    /\ ix_result = -1
    /\ X_sequences = <<>> /\ y_sequences = <<>> /\ bucket_min_size = 1
    /\ i = 0 /\ buckets = <<>> /\ bucket_keys = <<>> /\ k = 0
    /\ merge_ix = 0 /\ delete_ixs = <<>> /\ visited = <<>>
    /\ NoLoader

\* Lines 81-82.
CallGetBucketIx ==
    /\ pc = "ix_call"
    /\ ix_result' = get_bucket_ix(seq_length, bucket_range)
    /\ pc' = "ix_done"
    /\ UNCHANGED <<seq_length, bvars, evars>>

NextIx == CallGetBucketIx

SpecIx == InitIx /\ [][NextIx]_vars

----
(***************************************************************************)
(* load_embedding_weights.  A vector is a tuple of dim numbers.  The file  *)
(* holds one vector per word of FileWords, in that order; limit keeps the  *)
(* first limit of them.                                                    *)
(***************************************************************************)
Vocabulary == {"PAD", "kostka", "pes", "UNK"}
FileWords == <<"kostka", "pes">>

\* the vector of the j-th word of the file: no component is zero
FileVector(j, d) == [c \in 1..d |-> j]

\* np.zeros(dim)
Zeros(d) == [c \in 1..d |-> 0]

\* what np.random.uniform(low=-1.0, high=1.0, size=(dim)) can return: every
\* component in [-1, 1)
RandomVectors(d) == [1..d -> {-1, 0}]

\* KeyedVectors.load_word2vec_format(path, limit=limit)
LoadedModel(limit, d) ==
    [w \in {FileWords[j] : j \in 1..limit} |->
        FileVector(CHOOSE j \in 1..limit : FileWords[j] = w, d)]

IsPermutation(s) ==
    /\ \A a, b \in 1..Len(s) : a # b => s[a] # s[b]
    /\ Range(s) = 0..(Len(s) - 1)

\* The dicts words can be: n items, each an index of 0..n-1 and a word, the
\* indices distinct, in any insertion order.
WordDicts ==
    {d \in UNION {[1..n -> (0..(n - 1)) \X Vocabulary] : n \in 0..MaxVocab} :
        IsPermutation([j \in 1..Len(d) |-> d[j][1]])}

InitEmb ==
    /\ pc = "e_start"
    /\ words \in WordDicts
    /\ model = <<>> /\ dim = 0 /\ weights = <<>> /\ row_index = <<>>
    /\ NoBucketizer
    /\ NoIxCall

\* Lines 47-55.
LoadModel ==
    /\ pc = "e_start"
    /\ \E limit \in 0..Len(FileWords), d \in 1..MaxDim :
          /\ model' = LoadedModel(limit, d)
          /\ dim' = d
    /\ weights' = <<>>
    /\ pc' = IF Len(words) = 0 THEN "e_return" ELSE "e_loop"
    /\ UNCHANGED <<words, row_index, bvars, ivars>>

\* lines 57-69: the row of one item
RowFor(index, word, random) ==
    IF index = 0 THEN Zeros(dim)
    ELSE IF word \in DOMAIN model THEN model[word]
    ELSE random

\* One iteration of the loop of lines 56-76.
Weigh ==
    /\ pc = "e_loop"
    /\ Len(weights) < Len(words)
    /\ LET place == Len(weights) + 1
           index == words[place][1]
           word == words[place][2]
       IN  /\ \E random \in RandomVectors(dim) :
                 weights' = Append(weights, RowFor(index, word, random))
           /\ row_index' = Append(row_index, index)
           /\ pc' = IF place < Len(words) THEN "e_loop" ELSE "e_return"
    /\ UNCHANGED <<words, model, dim, bvars, ivars>>

\* Lines 78-79: np.asarray(weights) has the rows of weights, in their order.
ReturnWeights ==
    /\ pc = "e_return"
    /\ pc' = "e_done"
    /\ UNCHANGED <<words, model, dim, weights, row_index, bvars, ivars>>

NextEmb == LoadModel \/ Weigh \/ ReturnWeights

SpecEmb == InitEmb /\ [][NextEmb]_vars

----
(***************************************************************************)
(* Properties.                                                             *)
(***************************************************************************)
Raised == pc \in {"AssertionError", "ValueError", "KeyError", "IndexError"}

PairLen(p) == Max(Len(X_sequences[p]), Len(y_sequences[p]))

\* how many places of the buckets of bs hold the pair p
Occurrences(bs, p) ==
    Cardinality({bj \in UNION {{b} \X (1..Len(bs[b].X_word_seq)) : b \in DOMAIN bs} :
                    bs[bj[1]].X_word_seq[bj[2]] = p})

RECURSIVE SumSizes(_, _)
SumSizes(bs, keys) ==
    IF keys = {} THEN 0
    ELSE LET b == CHOOSE x \in keys : TRUE
         IN  Len(bs[b].X_word_seq) + SumSizes(bs, keys \ {b})

\* the largest len() among the input sequences seqs that the list refs holds
HeldMax(seqs, refs) ==
    LET lens == {Len(seqs[refs[j]]) : j \in 1..Len(refs)}
    IN  CHOOSE m \in lens : \A l \in lens : l <= m

\* C1: when split_to_buckets returns, every input pair is in exactly one place
\* of exactly one returned bucket, and the buckets' pair counts sum to len(X).
C1_EveryPairInExactlyOneBucket ==
    pc = "done" =>
        /\ \A p \in 1..Len(X_sequences) : Occurrences(buckets, p) = 1
        /\ SumSizes(buckets, DOMAIN buckets) = Len(X_sequences)

\* C2: when split_to_buckets returns, no returned bucket holds fewer than
\* bucket_min_size pairs, except possibly one residual bucket when the whole
\* input has fewer than bucket_min_size pairs.
C2_NoUndersizedBucketReturned ==
    pc = "done" =>
        \A b \in DOMAIN buckets :
            \/ Len(buckets[b].X_word_seq) >= bucket_min_size
            \/ /\ Len(X_sequences) < bucket_min_size
               /\ DOMAIN buckets = {b}

C2_Witness ==
    /\ pc = "done"
    /\ bucket_min_size >= 2
    /\ delete_ixs # <<>>
    /\ Cardinality(DOMAIN buckets) >= 2
    /\ \E b \in DOMAIN buckets : Len(buckets[b].X_word_seq) = bucket_min_size

\* the ceiling of L / W: the least q with q * W >= L
Ceiling(L, W) == CHOOSE q \in 0..L : q * W >= L /\ \A r \in 0..(q - 1) : r * W < L

\* C3: get_bucket_ix(L, W) is the ceiling of L / W: 0 for length 0, 1 for the
\* lengths 1..W, 2 for W+1..2W; get_bucket_ix(0, 3) = 0, get_bucket_ix(3, 3) = 1,
\* get_bucket_ix(4, 3) = 2.
C3_BucketIxIsCeiling ==
    pc = "ix_done" =>
        /\ ix_result = Ceiling(seq_length, bucket_range)
        /\ seq_length = 0 => ix_result = 0
        /\ seq_length \in 1..bucket_range => ix_result = 1
        /\ seq_length \in (bucket_range + 1)..(2 * bucket_range) => ix_result = 2
        /\ (seq_length = 0 /\ bucket_range = 3) => ix_result = 0
        /\ (seq_length = 3 /\ bucket_range = 3) => ix_result = 1
        /\ (seq_length = 4 /\ bucket_range = 3) => ix_result = 2

C3_Witness ==
    pc = "ix_done" /\ seq_length = 4 /\ bucket_range = 3 /\ ix_result = 2

\* C4: when len(X_sequences) # len(y_sequences) the call fails on the assertion
\* before any sequence is processed: no bucket is created, nothing is returned.
C4_MismatchFailsFirst ==
    Len(X_sequences) # Len(y_sequences) =>
        /\ pc \in {"start", "AssertionError"}
        /\ i = 0
        /\ buckets = <<>>
        /\ bucket_keys = <<>>

C4_Witness ==
    /\ pc = "AssertionError"
    /\ Len(X_sequences) > Len(y_sequences)
    /\ Len(y_sequences) > 0

IsDemo ==
    /\ X_sequences = DemoX
    /\ y_sequences = DemoY
    /\ bucket_range = 2
    /\ bucket_min_size = 2

\* C5: the demo call (7 pairs, bucket_range 2, bucket_min_size 2) returns; the
\* pairs of max-length <= 2 are together in one bucket, those of max-length 3-4
\* in another; the buckets found with fewer than 2 pairs (3 and 5) were merged
\* into a neighbouring index and removed; the pair counts sum to 7.
C5_DemoScenario ==
    IsDemo =>
        /\ ~Raised
        /\ pc = "done" =>
              /\ \E b \in DOMAIN buckets :
                    Range(buckets[b].X_word_seq) = {p \in 1..7 : PairLen(p) <= 2}
              /\ \E b \in DOMAIN buckets :
                    Range(buckets[b].X_word_seq) = {p \in 1..7 : PairLen(p) \in 3..4}
              /\ \A p \in 1..7 :
                    LET own == get_bucket_ix(PairLen(p), 2)
                    IN  \/ /\ own \in DOMAIN buckets
                           /\ p \in Range(buckets[own].X_word_seq)
                        \/ /\ own \notin DOMAIN buckets
                           /\ Cardinality({q \in 1..7 : get_bucket_ix(PairLen(q), 2) = own}) < 2
                           /\ \E nb \in {own - 1, own + 1} \cap DOMAIN buckets :
                                 p \in Range(buckets[nb].X_word_seq)
              /\ \A b \in DOMAIN buckets : Len(buckets[b].X_word_seq) >= 2
              /\ DOMAIN buckets = {1, 2, 4}
              /\ SumSizes(buckets, DOMAIN buckets) = 7

C5_Witness == IsDemo /\ pc = "done" /\ Range(delete_ixs) = {3, 5}

\* C6: the returned matrix has one row per vocabulary entry, the rows are in
\* the order of the vocabulary indices, and row 0 is the zero vector.
C6_RowsInIndexOrder ==
    pc = "e_done" =>
        /\ Len(weights) = Len(words)
        /\ \A r \in 1..Len(weights) : row_index[r] = r - 1
        /\ Len(weights) > 0 => weights[1] = Zeros(dim)

\* C7: in every returned bucket X_max_seq_len is the largest length among the X
\* sequences it holds, and y_max_seq_len the largest among its y sequences.
C7_MaxLenIsMaxOfHeld ==
    pc = "done" =>
        \A b \in DOMAIN buckets :
            /\ buckets[b].X_max_seq_len = HeldMax(X_sequences, buckets[b].X_word_seq)
            /\ buckets[b].y_max_seq_len = HeldMax(y_sequences, buckets[b].y_word_seq)

\* what the claim C8 says of one visit of the merge pass
C8_Visit ==
    (pc = "merge" /\ k' = k + 1) =>
        LET ix == bucket_keys[k + 1]
            size == Len(buckets[ix].X_word_seq)
            n == Cardinality(DOMAIN buckets)
            t == IF ix < n THEN ix + 1 ELSE ix - 1
        IN  /\ visited' = Append(visited, [ix |-> ix, size |-> size])
            /\ size < bucket_min_size =>
                  /\ merge_ix' = t
                  /\ \/ /\ t \notin DOMAIN buckets
                        /\ pc' = "KeyError"
                     \/ /\ t \in DOMAIN buckets
                        /\ pc' # "KeyError"
                        /\ buckets'[t].X_word_seq =
                              buckets[t].X_word_seq \o buckets[ix].X_word_seq
                        /\ buckets'[t].y_word_seq =
                              buckets[t].y_word_seq \o buckets[ix].y_word_seq
                        /\ \A b \in DOMAIN buckets \ {t} : buckets'[b] = buckets[b]
            /\ size >= bucket_min_size =>
                  /\ buckets' = buckets
                  /\ pc' # "KeyError"

\* what the claim C8 says of the result
C8_Result ==
    pc = "done" =>
        /\ Len(visited) = Len(bucket_keys)
        /\ \A key \in Range(bucket_keys) :
              Cardinality({j \in 1..Len(visited) : visited[j].ix = key}) = 1
        /\ \A j \in 1..Len(visited) :
              IF visited[j].size < bucket_min_size
              THEN visited[j].ix \notin DOMAIN buckets
              ELSE visited[j].ix \in DOMAIN buckets

\* C8: the merge pass visits each bucket key exactly once; a bucket whose pair
\* count when visited is below bucket_min_size is merged into ix+1 when ix is
\* less than the number of keys and into ix-1 otherwise, and is absent from the
\* result; every bucket not found undersized when visited is in the result.
C8_SinglePassMerge == [](C8_Result) /\ [][C8_Visit]_vars

C8_Witness ==
    /\ pc = "done"
    /\ \E u, v, w \in Range(visited) :
          /\ u.size < bucket_min_size /\ u.ix < Len(bucket_keys)
          /\ v.size < bucket_min_size /\ v.ix >= Len(bucket_keys)
          /\ w.size >= bucket_min_size
          /\ w.size > Cardinality({p \in 1..Len(X_sequences) :
                                     get_bucket_ix(PairLen(p), bucket_range) = w.ix})

\* C9: for non-empty lists of equal length the merge target always exists, so
\* the call never fails on a missing bucket key.
C9_MergeTargetExists ==
    (X_sequences # <<>> /\ Len(X_sequences) = Len(y_sequences)) => pc # "KeyError"

\* C10: in every bucket X_word_seq and y_word_seq have the same length and
\* position j of both comes from the same input pair, after the assignment
\* and after every merge.
C10_PairedByPosition ==
    \A b \in DOMAIN buckets :
        /\ Len(buckets[b].X_word_seq) = Len(buckets[b].y_word_seq)
        /\ \A j \in 1..Len(buckets[b].X_word_seq) :
              buckets[b].X_word_seq[j] = buckets[b].y_word_seq[j]

C10_Witness ==
    /\ pc = "done"
    /\ \E b \in DOMAIN buckets :
          /\ Len(buckets[b].X_word_seq) >= 3
          /\ \E j \in 1..Len(buckets[b].X_word_seq) :
                get_bucket_ix(PairLen(buckets[b].X_word_seq[j]), bucket_range) < b
          /\ \E j \in 1..Len(buckets[b].X_word_seq) :
                get_bucket_ix(PairLen(buckets[b].X_word_seq[j]), bucket_range) > b

====
